---- MODULE Spec2Model ----
(***************************************************************************)
(* The demo session broker of grandcamel/jira-demo (queue-manager).        *)
(*                                                                         *)
(* The broker is a single-threaded Node.js event loop.  Every action below *)
(* is one synchronous run of a handler: from the event that starts it to   *)
(* its first `await` (or its return), or from the resolution of an `await` *)
(* to the next one.  Handlers are written as transformers of a record `st` *)
(* of the broker's mutable state, so that the nested synchronous calls of  *)
(* the code (endSession -> processQueue -> startSession -> catch ->        *)
(* processQueue ...) compose as they do in the code.                       *)
(*                                                                         *)
(* Sources: queue-manager/services/session.js (startSession, endSession,   *)
(* timers), queue-manager/services/state.js (the shared state),            *)
(* queue-manager/server.js (the WebSocket handlers, the queue, invites,    *)
(* shutdown), queue-manager/routes/session.js (the HTTP endpoints), and    *)
(* the invite CLI (generate, revoke).                                      *)
(*                                                                         *)
(* Spec is the broker with everything its environment can do to an invite  *)
(* that is still within its expiresAt; SpecCore, SpecFaults, SpecTimers,   *)
(* SpecInvites and SpecLive are the same actions in narrower environments, *)
(* SpecLive with the scheduling of the event loop.  SpecValidate starts    *)
(* from every record an invite can be in, expired ones included; SpecStore *)
(* adds the operator's revoke and the passing of expiresAt; SpecHttp is    *)
(* the invite validation endpoint with its limiter, SpecCookie the session *)
(* validation endpoint beside the clients.  SpecReconnect has the grace    *)
(* window of state.js in place of the immediate end of handleDisconnect.   *)
(*                                                                         *)
(* A handler's run also yields the messages it sent (st.out); they are not *)
(* part of the state, properties about them are stated on the run.         *)
(***************************************************************************)
EXTENDS Integers, Sequences, FiniteSets, TLC

(***************************************************************************)
(* Bounds of the model                                                     *)
(***************************************************************************)
\* joins admitted over a run (a session token is minted for each; every
\* session start consumes one) ...
\* ... when start failures, shutdown or the clock are in play
MaxJoins == 2
\* ... when they are not
MaxJoinsCore == 3
\* how often the operator runs `revoke`
MaxRevokes == 1
\* how many requests to /api/invite/validate await Redis at a time
MaxInFlight == 2
(***************************************************************************)
(* Program constants; one unit of time is five minutes                     *)
(***************************************************************************)
\* config.SESSION_TIMEOUT_MINUTES (parseInt(env) || 60), set to 10 minutes
SESSION_TIMEOUT_UNITS == 2
\* scheduleSessionWarning: (SESSION_TIMEOUT_MINUTES - 5) minutes
WARNING_LEAD_UNITS == 1
\* hardTimeoutMs: (SESSION_TIMEOUT_MINUTES + 5) minutes
HARD_GRACE_UNITS == 1
\* config.MAX_QUEUE_SIZE (parseInt(env) || 10), set to 2
MAX_QUEUE_SIZE == 2
\* invite.maxUses as written by the invite CLI's generate
MAX_USES == 1
\* validateInvite: token.length < 10 is malformed
MIN_TOKEN_LENGTH == 10
\* config.INVITE_RATE_LIMIT_MAX_ATTEMPTS: failed validations per address
\* within the window of one hour
INVITE_RATE_LIMIT_MAX_ATTEMPTS == 10
\* generateToken: crypto.randomBytes(12).toString('base64url')
GENERATED_TOKEN_LENGTH == 16

Clients == {"c1", "c2", "c3"}
\* the connections that open where two are enough
TwoClients == {"c1", "c2"}
InviteTokens == {"T1"}
\* what a join_queue can carry as inviteToken: a generated token, or a few
\* characters somebody typed
PresentedTokens == InviteTokens \cup {"short"}
NoInvite == "none"
\* the remote addresses requests come from, and the one each client's
\* socket was opened from (clients.set(ws, {ip: clientIp, ...}))
Addresses == {"ip1", "ip2"}
ClientIp(c) == IF c = "c2" THEN "ip2" ELSE "ip1"
NoClient == "nobody"
MaxSessions == IF MaxJoins > MaxJoinsCore THEN MaxJoins ELSE MaxJoinsCore
SessionIds == 1..MaxSessions
TokenIds == 1..MaxSessions
\* what can happen to a start: nothing, createSessionEnvFile throws, spawn
\* throws, redis.set rejects
StartOutcomes == {"ok", "envFail", "spawnFail", "setFail"}

VARIABLES
    clients,               \* state.clients: ws -> client record
    queue,                 \* state.queue: client ids waiting
    activeSession,         \* state.activeSession: 0 is null, else the session
    sess,                  \* the session objects created so far, their process,
                           \* credential file and timers, and what was observed
    sessionTokens,         \* state.sessionTokens: token -> sessionId
    pendingSessionTokens,  \* state.pendingSessionTokens
    invites,               \* the invite records in Redis
    redisQ,                \* Redis commands in flight, each with the
                           \* continuation that awaits its reply (one
                           \* connection: replies arrive in order)
    nextSid,               \* the next session object
    nextTok,               \* the next session token to mint
    broker,                \* up | stopping (SIGTERM handler awaiting
                           \* endSession) | exited (process.exit(0))
    cli,                   \* the operator's `revoke` command: a process of
                           \* its own with its own Redis connection
    inviteFailures,        \* the limiter of /api/invite/validate: failed
                           \* validations per address within the window
    disconnectGraceTimeout,   \* state.disconnectGraceTimeout: none | armed
    reconnectionInProgress,   \* state.reconnectionInProgress
    reconnects             \* reconnect attempts that hold the lock and
                           \* have not finished

vars == <<clients, queue, activeSession, sess, sessionTokens,
          pendingSessionTokens, invites, redisQ, nextSid, nextTok, broker,
          cli, inviteFailures, disconnectGraceTimeout, reconnectionInProgress,
          reconnects>>

(***************************************************************************)
(* Helpers on sequences                                                    *)
(***************************************************************************)
Range(s) == {s[i] : i \in 1..Len(s)}

\* queue.indexOf(c) + 1: the 1-based place of the first c, 0 when absent
IndexOf(q, c) ==
    IF c \in Range(q)
    THEN CHOOSE i \in 1..Len(q) : q[i] = c /\ \A j \in 1..(i - 1) : q[j] # c
    ELSE 0

\* queue.splice(queue.indexOf(c), 1) when c is present: the first c goes
Without(q, c) ==
    LET i == IndexOf(q, c)
    IN  IF i = 0 THEN q
        ELSE SubSeq(q, 1, i - 1) \o SubSeq(q, i + 1, Len(q))

\* the broker's mutable state as one record
Cur ==
    [clients |-> clients, queue |-> queue, activeSession |-> activeSession,
     sess |-> sess, sessionTokens |-> sessionTokens,
     pendingSessionTokens |-> pendingSessionTokens, invites |-> invites,
     redisQ |-> redisQ, nextSid |-> nextSid, nextTok |-> nextTok,
     broker |-> broker, cli |-> cli, inviteFailures |-> inviteFailures,
     disconnectGraceTimeout |-> disconnectGraceTimeout,
     reconnectionInProgress |-> reconnectionInProgress,
     reconnects |-> reconnects,
     out |-> {}]   \* the messages this run of a handler has sent

Commit(st) ==
    /\ clients' = st.clients
    /\ queue' = st.queue
    /\ activeSession' = st.activeSession
    /\ sess' = st.sess
    /\ sessionTokens' = st.sessionTokens
    /\ pendingSessionTokens' = st.pendingSessionTokens
    /\ invites' = st.invites
    /\ redisQ' = st.redisQ
    /\ nextSid' = st.nextSid
    /\ nextTok' = st.nextTok
    /\ broker' = st.broker
    /\ cli' = st.cli
    /\ inviteFailures' = st.inviteFailures
    /\ disconnectGraceTimeout' = st.disconnectGraceTimeout
    /\ reconnectionInProgress' = st.reconnectionInProgress
    /\ reconnects' = st.reconnects

\* client.state = v.  The record of a closed connection was deleted from
\* state.clients; a write to the detached object is never read again.
SetState(st, c, v) ==
    IF st.clients[c].conn = "closed"
    THEN st
    ELSE [st EXCEPT !.clients[c].state = v]

\* a session object that has not been created
NoSession ==
    [clientId |-> NoClient, inviteToken |-> NoInvite, sessionToken |-> 0,
     age |-> 0,                \* time since startedAt, counted up to the
                               \* last deadline of the session's timers
     ttydProcess |-> "none",   \* none | alive | exiting (sent SIGKILL, 'exit'
                               \* not yet delivered) | dead
     sigterm |-> FALSE,        \* SIGTERM was sent to the live process
     envFile |-> FALSE,        \* the credential file exists
     hardTimeout |-> "none",   \* none | armed | cleared | fired
     awaitingReconnect |-> FALSE,  \* the owner's socket closed, the grace
                               \* window is open
     warnTimer |-> "none",     \* none | armed | fired
     softTimer |-> "none",     \* none | armed | fired
     \* observations
     phase |-> "none",         \* none | failed | running | ending | ended
     cleanupCalls |-> 0,       \* invocations of envFileCleanup
     endedMsgs |-> 0,          \* session_ended sent to the owner
     consumes |-> 0,           \* recordInviteUsage invocations
     resets |-> 0,             \* runSandboxCleanup invocations, each followed
                               \* by setActiveSession(null); processQueue()
     warnings |-> 0,           \* session_warning sent while this session
                               \* held the slot
     warnedOffTime |-> FALSE,  \* ... at another time than 5 minutes before
                               \* its expiresAt
     endedEarly |-> FALSE,     \* endSession('timeout') began on this
                               \* session before its expiresAt
     tornAtNotify |-> TRUE,    \* at every session_ended: file gone and the
                               \* token rejected by /api/session/validate
     cleanedAtClear |-> TRUE]  \* at every clearSessionToken of endSession:
                               \* file gone

\* a Redis command in flight and the continuation awaiting its reply
Cmd(k, sid, c, tok, snap, sd) ==
    [k |-> k, sid |-> sid, client |-> c, tok |-> tok, snap |-> snap,
     sd |-> sd]

\* the session of a usage record written before the broker's current run
EarlierSession == 0

NoSnap == [status |-> "none", useCount |-> 0, sessions |-> {},
           expired |-> FALSE]

\* the operator's command before it is run: idle | ttl (the record was read
\* and marked revoked, redis.ttl is awaited) | set (redis.set is awaited)
NoRevoke == [pc |-> "idle", tok |-> NoInvite, runs |-> 0, snap |-> NoSnap]

\* redis.set of an invite record.  The record carries expiresAt, which no
\* writer changes: whether that instant has passed (expired) is a fact of the
\* clock and stays what it is whatever snapshot is written.
RedisSet(st, tok, snap) ==
    [st EXCEPT !.invites[tok] =
                  [snap EXCEPT !.expired = st.invites[tok].expired]]

\* observation counters tell none, one and more than one apart
More(n) == IF n >= 2 THEN n ELSE n + 1

\* joins admitted so far, and joins suspended on their invite validation
Admitting == (nextTok - 1) + Cardinality({i \in 1..Len(redisQ) : redisQ[i].k = "validate"})

(***************************************************************************)
(* services/session.js: helpers                                            *)
(***************************************************************************)
\* findClientWs: the client's record is still in state.clients ("closing" is
\* the record of a socket whose 'close' handler is running)
FindClientWs(st, c) ==
    c \in Clients /\ st.clients[c].conn \in {"open", "closing"}

\* ws.send reaches the browser only on an open socket
Delivered(st, c) ==
    c \in Clients /\ st.clients[c].conn = "open"

\* a message on a client's socket; position and queue_size are 0 except in
\* queue_position
Msg(c, type, position, size) ==
    [to |-> c, type |-> type, position |-> position, queue_size |-> size,
     reason |-> "none"]

\* ws.send(JSON.stringify(...)) on the socket of client c
Send(st, c, type) == [st EXCEPT !.out = @ \cup {Msg(c, type, 0, 0)}]

\* ws.send of invite_invalid with the validation's reason
SendInvalid(st, c, reason) ==
    [st EXCEPT !.out = @ \cup {[Msg(c, "invite_invalid", 0, 0) EXCEPT
                                   !.reason = reason]}]

\* res.status(code).json({valid, reason}) to the address that asked
Respond(st, ip, code, reason) ==
    [st EXCEPT !.out = @ \cup {[Msg(ip, code, 0, 0) EXCEPT
                                   !.reason = reason]}]

\* sendQueuePosition
SendQueuePosition(st, c) ==
    [st EXCEPT !.out = @ \cup {Msg(c, "queue_position",
                                   IndexOf(st.queue, c), Len(st.queue))}]

\* broadcastQueueUpdate: every record of state.clients in state 'queued'
BroadcastQueueUpdate(st) ==
    [st EXCEPT !.out = @ \cup
        {Msg(c, "queue_position", IndexOf(st.queue, c), Len(st.queue)) :
            c \in {d \in Clients : /\ st.clients[d].conn \in {"open", "closing"}
                                   /\ st.clients[d].state = "queued"}}]

\* GET /api/session/validate answers 200 for this cookie
ValidateCookie(st, tok) ==
    /\ tok # 0
    /\ \/ /\ st.sessionTokens[tok] # 0
          /\ st.activeSession # 0
          /\ st.activeSession = st.sessionTokens[tok]
       \/ st.pendingSessionTokens[tok] # NoClient

\* activeSession.ttydProcess.kill('SIGTERM'): the terminal may ignore it
KillSigterm(st, a) ==
    IF st.sess[a].ttydProcess = "alive"
    THEN [st EXCEPT !.sess[a].sigterm = TRUE]
    ELSE st

\* currentSession.ttydProcess.kill('SIGKILL'): the terminal cannot ignore it
KillSigkill(st, a) ==
    IF st.sess[a].ttydProcess = "alive"
    THEN [st EXCEPT !.sess[a].ttydProcess = "exiting"]
    ELSE st

\* if (activeSession.hardTimeout) { clearTimeout(...); hardTimeout = null }
ClearHardTimeout(st, a) ==
    IF st.sess[a].hardTimeout = "armed"
    THEN [st EXCEPT !.sess[a].hardTimeout = "cleared"]
    ELSE st

\* envFile.cleanup(): unlinks the session's credential file
EnvFileCleanup(st, a) ==
    [st EXCEPT !.sess[a].envFile = FALSE, !.sess[a].cleanupCalls = More(@)]

\* a clearSessionToken that leaves the token in state.sessionTokens
ClearSessionTokenKept(st, tok) == st

\* clearSessionToken(sessionToken)
ClearSessionToken(st, tok) ==
    IF tok # 0 THEN [st EXCEPT !.sessionTokens[tok] = 0] ELSE st

\* the pending session token a join hands to the client (the handler that
\* mints it is not among the sources; startSession reads
\* client.pendingSessionToken)
MintPendingToken(st, c) ==
    [st EXCEPT !.clients[c].pendingSessionToken = st.nextTok,
               !.pendingSessionTokens[st.nextTok] = c,
               !.nextTok = @ + 1]

(***************************************************************************)
(* startSession and processQueue                                           *)
(***************************************************************************)
\* the session object startSession builds, with its timers armed
NewSession(st, c, tok) ==
    [NoSession EXCEPT !.clientId = c,
                      !.inviteToken = st.clients[c].inviteToken,
                      !.sessionToken = tok,
                      !.ttydProcess = "alive",
                      !.envFile = TRUE,
                      !.hardTimeout = "armed",
                      !.warnTimer = "armed",
                      !.softTimer = "armed",
                      !.phase = "running"]

\* what the catch of startSession sends
StartError == "error: Failed to start demo session"

RECURSIVE ProcessQueue(_, _), StartSession(_, _, _)

\* a processQueue that serves the newest arrival first
ProcessQueueLifo(st, outs) ==
    IF st.activeSession # 0 \/ st.queue = <<>>
    THEN st
    ELSE LET next == st.queue[Len(st.queue)] IN
         IF FindClientWs(st, next)
         THEN StartSession(st, next, outs)
         ELSE ProcessQueue([st EXCEPT !.queue = SubSeq(@, 1, Len(@) - 1)],
                           outs)

\* processQueue(): start the head of the queue when the slot is empty
ProcessQueue(st, outs) ==
    IF st.activeSession # 0 \/ st.queue = <<>>
    THEN st
    ELSE LET next == Head(st.queue) IN
         IF FindClientWs(st, next)
         THEN StartSession(st, next, outs)
         ELSE ProcessQueue([st EXCEPT !.queue = Tail(@)], outs)

\* startSession(redis, ws, client, processQueue) up to `await redis.set`.
\* Head(outs) says whether createSessionEnvFile or spawn throws, or whether
\* redis.set will reject.
StartSession(st, c, outs) ==
    LET o == IF outs = <<>> THEN "ok" ELSE Head(outs)
        rest == IF outs = <<>> THEN <<>> ELSE Tail(outs)
        sid == st.nextSid
        s1 == SetState([st EXCEPT !.queue = Without(@, c)], c, "active")
        tok == s1.clients[c].pendingSessionToken
    IN  CASE o = "envFail" ->
               \* catch: no file was created
               ProcessQueue(SetState(Send(s1, c, StartError), c, "connected"),
                            rest)
          [] o = "spawnFail" ->
               \* catch: the file was created, envFileCleanup() removes it
               ProcessQueue(
                   EnvFileCleanup(
                       [SetState(Send(s1, c, StartError), c, "connected")
                        EXCEPT
                           !.nextSid = sid + 1,
                           !.sess[sid] = [NoSession EXCEPT !.clientId = c,
                                                           !.envFile = TRUE,
                                                           !.phase = "failed"]],
                       sid),
                   rest)
          [] OTHER ->
               LET s2 == IF tok # 0
                         THEN [s1 EXCEPT !.pendingSessionTokens[tok] = NoClient,
                                         !.sessionTokens[tok] = sid]
                         ELSE s1
                   s3 == Send([s2 EXCEPT !.nextSid = sid + 1,
                                         !.activeSession = sid,
                                         !.sess[sid] = NewSession(s1, c, tok)],
                              c, "session_starting")
               IN  \* `await redis.set`: a reply that resolves resumes
                   \* nothing that changes state, so only the command whose
                   \* reply rejects is kept in flight
                   IF o = "setFail"
                   THEN [s3 EXCEPT !.redisQ = Append(@, Cmd("startSet", sid,
                                                c, NoInvite, NoSnap, FALSE))]
                   ELSE s3

\* startSession's catch after `await redis.set` rejected
StartCatch(st, sid, c, outs) ==
    ProcessQueue(
        EnvFileCleanup(SetState(Send(st, c, StartError), c, "connected"),
                       sid),
        outs)

(***************************************************************************)
(* endSession                                                              *)
(***************************************************************************)
\* from "Notify client to clear cookie" to `await redis.del`
EndNotify(st, a, sd) ==
    LET c == st.sess[a].clientId
        s1 == IF FindClientWs(st, c)
              THEN [st EXCEPT
                      !.clients[c].state = "connected",
                      !.sess[a].endedMsgs =
                          IF Delivered(st, c) THEN More(@) ELSE @,
                      !.sess[a].tornAtNotify =
                          /\ @
                          /\ ~st.sess[a].envFile
                          /\ ~ValidateCookie(st, st.sess[a].sessionToken)]
              ELSE st
    IN  [s1 EXCEPT !.redisQ = Append(@, Cmd("del", a, c, NoInvite, NoSnap,
                                            sd))]

\* endSession(redis, reason, processQueue) up to its first await
EndSession(st, reason, sd) ==
    LET a == st.activeSession IN
    IF a = 0
    THEN st
    ELSE LET s0 == [st EXCEPT
                      !.sess[a].phase = IF @ = "running" THEN "ending" ELSE @,
                      !.sess[a].endedEarly =
                          \/ @
                          \/ /\ reason = "timeout"
                             /\ st.sess[a].age < SESSION_TIMEOUT_UNITS]
             s1 == KillSigterm(s0, a)
             s2 == ClearHardTimeout(s1, a)
             s3 == EnvFileCleanup(s2, a)
             s4 == [ClearSessionToken(s3, s3.sess[a].sessionToken) EXCEPT
                      !.sess[a].cleanedAtClear = @ /\ ~s3.sess[a].envFile]
         IN  IF s4.sess[a].inviteToken # NoInvite
             THEN [s4 EXCEPT
                     !.sess[a].consumes = More(@),
                     !.redisQ = Append(@, Cmd("invGet", a, s4.sess[a].clientId,
                                              s4.sess[a].inviteToken, NoSnap,
                                              sd))]
             ELSE EndNotify(s4, a, sd)

\* an endSession that frees the slot and does not ask for the next client
EndFinishNoPromotion(st, a, sd, outs) ==
    LET s1 == [st EXCEPT
                 !.sess[a].resets = More(@),
                 !.sess[a].phase = IF @ \in {"running", "ending"}
                                   THEN "ended" ELSE @,
                 !.activeSession = 0]
    IN  IF sd THEN [s1 EXCEPT !.broker = "exited"] ELSE s1

\* from the resolution of `await redis.del` to the end of endSession; when
\* the SIGTERM handler awaits this call, process.exit(0) follows
EndFinish(st, a, sd, outs) ==
    LET s1 == [st EXCEPT
                 !.sess[a].resets = More(@),
                 !.sess[a].phase = IF @ \in {"running", "ending"}
                                   THEN "ended" ELSE @,
                 !.activeSession = 0]
        s2 == ProcessQueue(s1, outs)
    IN  IF sd THEN [s2 EXCEPT !.broker = "exited"] ELSE s2

(***************************************************************************)
(* Invites (server.js)                                                     *)
(***************************************************************************)
\* token.length: generateToken makes 16 characters out of 12 random bytes;
\* any other token is one a visitor typed
TokenLength(tok) ==
    IF tok \in InviteTokens THEN GENERATED_TOKEN_LENGTH
    ELSE IF tok = "" THEN 0 ELSE 5

\* !token || token.length < 10
Malformed(tok) == tok = "" \/ TokenLength(tok) < MIN_TOKEN_LENGTH

\* a validateInvite that looks at the expiry before the status
ValidateInviteExpiryFirst(tok, inv) ==
    IF Malformed(tok)
    THEN [reason |-> "invalid", write |-> NoSnap]
    ELSE IF inv.status = "none"
    THEN [reason |-> "not_found", write |-> NoSnap]
    ELSE IF inv.expired
    THEN [reason |-> "expired", write |-> [inv EXCEPT !.status = "expired"]]
    ELSE IF inv.status = "revoked"
    THEN [reason |-> "revoked", write |-> NoSnap]
    ELSE IF inv.status = "used" \/ inv.useCount >= MAX_USES
    THEN [reason |-> "used", write |-> NoSnap]
    ELSE [reason |-> "ok", write |-> NoSnap]

\* validateInvite(token): its verdict, and the record it writes back to
\* Redis (NoSnap: it writes nothing).  inv is what redis.get answered, NoSnap
\* for a key that does not exist; inv.expired says new Date(invite.expiresAt)
\* < new Date().
ValidateInvite(tok, inv) ==
    IF Malformed(tok)
    THEN [reason |-> "invalid", write |-> NoSnap]
    ELSE IF inv.status = "none"
    THEN [reason |-> "not_found", write |-> NoSnap]
    ELSE IF inv.status = "revoked"
    THEN [reason |-> "revoked", write |-> NoSnap]
    ELSE IF inv.status = "used" \/ inv.useCount >= MAX_USES
    THEN [reason |-> "used", write |-> NoSnap]
    ELSE IF inv.expired
    THEN [reason |-> "expired", write |-> [inv EXCEPT !.status = "expired"]]
    ELSE [reason |-> "ok", write |-> NoSnap]

\* a recordInviteUsage that marks the invite used one consume late
ConsumedLate(inv, sid) ==
    [inv EXCEPT !.status = IF inv.useCount + 1 > MAX_USES THEN "used" ELSE @,
                !.useCount = @ + 1,
                !.sessions = @ \cup {sid}]

\* a recordInviteUsage that counts the use and pushes no session record
ConsumedUnrecorded(inv, sid) ==
    [inv EXCEPT !.status = IF inv.useCount + 1 >= MAX_USES THEN "used" ELSE @,
                !.useCount = @ + 1]

\* recordInviteUsage: the record it writes back, from the record it read;
\* the session record it pushes is named by the session's id
Consumed(inv, sid) ==
    [inv EXCEPT !.status = IF inv.useCount + 1 >= MAX_USES THEN "used" ELSE @,
                !.useCount = @ + 1,
                !.sessions = @ \cup {sid}]

(***************************************************************************)
(* joinQueue                                                               *)
(***************************************************************************)
\* a joinQueue whose size check lets one client too many in
JoinAdmitOneMore(st, c, outs) ==
    IF Len(st.queue) > MAX_QUEUE_SIZE
    THEN Send(st, c, "queue_full")
    ELSE LET s1 == MintPendingToken(st, c)
             s2 == SetState([s1 EXCEPT !.queue = Append(@, c)], c, "queued")
         IN  BroadcastQueueUpdate(
                 IF s2.activeSession = 0 /\ Head(s2.queue) = c
                 THEN StartSession(s2, c, outs)
                 ELSE SendQueuePosition(s2, c))

\* a joinQueue that announces the new arrival before it looks at the slot
JoinAdmitAnnounced(st, c, outs) ==
    IF Len(st.queue) >= MAX_QUEUE_SIZE
    THEN Send(st, c, "queue_full")
    ELSE LET s1 == MintPendingToken(st, c)
             s2 == BroadcastQueueUpdate(
                       SetState([s1 EXCEPT !.queue = Append(@, c)], c,
                                "queued"))
         IN  IF s2.activeSession = 0 /\ Head(s2.queue) = c
             THEN StartSession(s2, c, outs)
             ELSE s2

\* joinQueue from "Check queue size limit" on
JoinAdmit(st, c, outs) ==
    IF Len(st.queue) >= MAX_QUEUE_SIZE
    THEN Send(st, c, "queue_full")
    ELSE LET s1 == MintPendingToken(st, c)
             s2 == SetState([s1 EXCEPT !.queue = Append(@, c)], c, "queued")
         IN  BroadcastQueueUpdate(
                 IF s2.activeSession = 0 /\ Head(s2.queue) = c
                 THEN StartSession(s2, c, outs)
                 ELSE SendQueuePosition(s2, c))

\* joinQueue of a join_queue without an invite token
JoinQueueRun(st, c, outs) ==
    IF c \in Range(st.queue)
    THEN Send(st, c, "error: Already in queue")
    ELSE JoinAdmit(st, c, outs)

\* the outcomes of the starts one handler run can make: at most one per
\* queued client
OutcomeSeqs == {<<a, b>> : a \in StartOutcomes, b \in StartOutcomes}
\* every start succeeds
AllOk == {<<"ok", "ok">>}
\* the outcomes of the first n starts
Trim(O, n) == {SubSeq(o, 1, IF n < Len(o) THEN n ELSE Len(o)) : o \in O}
\* the starts processQueue can make once the slot is empty: one per queued
\* client at most
StartsAhead(q, slot) == IF slot = 0 THEN Len(q) ELSE 0

(***************************************************************************)
(* Timers                                                                  *)
(***************************************************************************)
\* the delays given to setTimeout
WarningDelay == SESSION_TIMEOUT_UNITS - WARNING_LEAD_UNITS
TimeoutDelay == SESSION_TIMEOUT_UNITS
HardDelay == SESSION_TIMEOUT_UNITS + HARD_GRACE_UNITS

\* the guard shared by the timer callbacks and the 'exit' handler:
\* activeSession && activeSession.clientId === client.id, where client is
\* the owner of the session s that registered the callback
OwnsSlot(st, s) ==
    /\ st.activeSession # 0
    /\ st.sess[st.activeSession].clientId = st.sess[s].clientId

\* some timer is due, some reply is in flight or some 'exit' is undelivered:
\* the event loop runs these before five more minutes pass
Busy ==
    \/ redisQ # <<>>
    \/ \E s \in SessionIds :
          \/ sess[s].warnTimer = "armed" /\ sess[s].age >= WarningDelay
          \/ sess[s].softTimer = "armed" /\ sess[s].age >= TimeoutDelay
          \/ sess[s].hardTimeout = "armed" /\ sess[s].age >= HardDelay
          \/ sess[s].ttydProcess = "exiting"

(***************************************************************************)
(* Initial state                                                           *)
(***************************************************************************)
Init ==
    /\ clients = [c \in Clients |->
                    [conn |-> "none", state |-> "connected",
                     inviteToken |-> NoInvite, pendingSessionToken |-> 0]]
    /\ queue = <<>>
    /\ activeSession = 0
    /\ sess = [s \in SessionIds |-> NoSession]
    /\ sessionTokens = [t \in TokenIds |-> 0]
    /\ pendingSessionTokens = [t \in TokenIds |-> NoClient]
    /\ invites = [t \in InviteTokens |->
                    [status |-> "pending", useCount |-> 0, sessions |-> {},
                     expired |-> FALSE]]
    /\ cli = NoRevoke
    /\ inviteFailures = [a \in Addresses |-> 0]
    /\ disconnectGraceTimeout = "none"
    /\ reconnectionInProgress = FALSE
    /\ reconnects = <<>>
    /\ redisQ = <<>>
    /\ nextSid = 1
    /\ nextTok = 1
    /\ broker = "up"

(***************************************************************************)
(* Actions: WebSocket handlers (server.js)                                 *)
(***************************************************************************)
\* wss.on('connection')
Connect(c) ==
    /\ broker # "exited"
    /\ clients[c].conn = "none"
    /\ clients' = [clients EXCEPT ![c].conn = "open"]
    /\ UNCHANGED <<queue, activeSession, sess, sessionTokens,
                   pendingSessionTokens, invites, redisQ, nextSid, nextTok,
                   broker, cli, inviteFailures, disconnectGraceTimeout,
                   reconnectionInProgress, reconnects>>

\* join_queue without an invite token: joinQueue runs to its end
JoinQueue(c, cap, O) ==
    /\ broker # "exited"
    /\ clients[c].conn = "open"
    /\ Admitting < cap
    /\ \E outs \in Trim(O, StartsAhead(Append(queue, c), activeSession)) :
          Commit(JoinQueueRun(Cur, c, outs))

\* joinQueue of a client that is not queued, with an invite token, up to
\* the redis.get of validateInvite
JoinQueueInviteRun(st, c, tok) ==
    IF Malformed(tok)
    THEN SendInvalid(st, c, "invalid")
    ELSE [st EXCEPT !.redisQ = Append(@, Cmd("validate", 0, c, tok, NoSnap,
                                             FALSE))]

\* join_queue with an invite token: joinQueue up to `await validateInvite`
JoinQueueInvite(c, tok, cap) ==
    /\ broker # "exited"
    /\ clients[c].conn = "open"
    /\ Admitting < cap
    /\ c \notin Range(queue)
    /\ Commit(JoinQueueInviteRun(Cur, c, tok))

\* join_queue from a browser that follows the page's script: it asks to join
\* only while it is neither queued nor active
JoinQueueIdle(c, cap, O) ==
    /\ clients[c].state = "connected"
    /\ JoinQueue(c, cap, O)

\* validateInvite and joinQueue after the redis.get at the head of the
\* pipeline was answered
ReplyValidateRun(st0, outs) ==
    LET h == Head(st0.redisQ)
        st == [st0 EXCEPT !.redisQ = Tail(@)]
        v == ValidateInvite(h.tok, st0.invites[h.tok])
    IN  CASE v.reason = "ok" ->
               JoinAdmit([st EXCEPT !.clients[h.client].inviteToken = h.tok],
                         h.client, outs)
          [] v.reason = "expired" ->
               \* invite.status = 'expired'; await redis.ttl(inviteKey)
               [st EXCEPT !.redisQ = Append(@, Cmd("expTtl", 0, h.client,
                                                   h.tok, v.write, FALSE))]
          [] OTHER -> SendInvalid(st, h.client, v.reason)

\* joinQueue resumed with the invite record
ReplyValidate(O) ==
    /\ broker # "exited"
    /\ redisQ # <<>>
    /\ Head(redisQ).k = "validate"
    /\ \E outs \in Trim(O, StartsAhead(Append(queue, Head(redisQ).client),
                                       activeSession)) :
          Commit(ReplyValidateRun(Cur, outs))

\* validateInvite resumed with the key's ttl: await redis.set of the record
\* it marked expired
ReplyExpTtl ==
    /\ broker # "exited"
    /\ redisQ # <<>>
    /\ Head(redisQ).k = "expTtl"
    /\ LET h == Head(redisQ) IN
          Commit([Cur EXCEPT
                    !.redisQ = Append(Tail(@),
                                      Cmd("expSet", 0, h.client, h.tok,
                                          h.snap, FALSE))])

\* validateInvite's write of the record it marked expired is done: it
\* returns expired and joinQueue answers invite_invalid
ReplyExpSetRun(st) ==
    LET h == Head(st.redisQ) IN
       SendInvalid(RedisSet([st EXCEPT !.redisQ = Tail(@)], h.tok, h.snap),
                   h.client, "expired")

\* the write of the expired record is done: joinQueue answers invite_invalid
ReplyExpSet ==
    /\ broker # "exited"
    /\ redisQ # <<>>
    /\ Head(redisQ).k = "expSet"
    /\ Commit(ReplyExpSetRun(Cur))

\* leaveQueue
LeaveQueueRun(st, c) ==
    IF IndexOf(st.queue, c) # 0
    THEN BroadcastQueueUpdate(
             Send([st EXCEPT !.queue = Without(@, c),
                             !.clients[c].state = "connected"],
                  c, "left_queue"))
    ELSE st

\* leave_queue
LeaveQueue(c) ==
    /\ broker # "exited"
    /\ clients[c].conn = "open"
    /\ Commit(LeaveQueueRun(Cur, c))

\* handleDisconnect
HandleDisconnectRun(st, c) ==
    LET s0 == [st EXCEPT !.clients[c].conn = "closing"]
        s1 == IF IndexOf(s0.queue, c) # 0
              THEN BroadcastQueueUpdate([s0 EXCEPT !.queue = Without(@, c)])
              ELSE s0
        s2 == IF s1.activeSession # 0
                 /\ s1.sess[s1.activeSession].clientId = c
              THEN EndSession(s1, "disconnected", FALSE)
              ELSE s1
    IN  [s2 EXCEPT !.clients[c].conn = "closed",
                   !.clients[c].state = "closed"]

\* ws.on('close')
HandleDisconnect(c) ==
    /\ broker # "exited"
    /\ clients[c].conn = "open"
    /\ Commit(HandleDisconnectRun(Cur, c))

(***************************************************************************)
(* Actions: continuations of endSession and startSession                   *)
(***************************************************************************)
\* recordInviteUsage resumed with the invite record it read
ReplyInvGet ==
    /\ broker # "exited"
    /\ redisQ # <<>>
    /\ Head(redisQ).k = "invGet"
    /\ LET h == Head(redisQ) IN
          Commit([Cur EXCEPT
                    !.redisQ = Append(Tail(@),
                                      Cmd("invSet", h.sid, h.client, h.tok,
                                          Consumed(invites[h.tok], h.sid),
                                          h.sd))])

\* recordInviteUsage's write done; endSession goes on to notify the owner
ReplyInvSet ==
    /\ broker # "exited"
    /\ redisQ # <<>>
    /\ Head(redisQ).k = "invSet"
    /\ LET h == Head(redisQ) IN
          Commit(EndNotify(RedisSet([Cur EXCEPT !.redisQ = Tail(@)], h.tok,
                                    h.snap),
                           h.sid, h.sd))

\* `await redis.del` resolved: endSession runs to its end
ReplyDel(O) ==
    /\ broker # "exited"
    /\ redisQ # <<>>
    /\ Head(redisQ).k = "del"
    /\ LET h == Head(redisQ) IN
          \E outs \in Trim(O, StartsAhead(queue, 0)) :
             Commit(EndFinish([Cur EXCEPT !.redisQ = Tail(@)], h.sid, h.sd,
                              outs))

\* startSession's `await redis.set` rejected: the catch block runs
ReplyStartSetErr(O) ==
    /\ broker # "exited"
    /\ redisQ # <<>>
    /\ Head(redisQ).k = "startSet"
    /\ LET h == Head(redisQ) IN
          \E outs \in Trim(O, StartsAhead(queue, activeSession)) :
             Commit(StartCatch([Cur EXCEPT !.redisQ = Tail(@)], h.sid,
                               h.client, outs))

(***************************************************************************)
(* Actions: the terminal process and the timers                            *)
(***************************************************************************)
\* ttydProcess.on('exit') of session s, run on the state st
OnExit(st, s) ==
    LET s1 == [st EXCEPT !.sess[s].ttydProcess = "dead"]
        s2 == IF s1.activeSession # 0
              THEN ClearHardTimeout(s1, s1.activeSession)
              ELSE s1
    IN  IF OwnsSlot(s2, s)
        THEN EndSession(s2, "container_exit", FALSE)
        ELSE s2

\* the terminal process of session s ends (on its own, or after SIGTERM) and
\* its 'exit' event is delivered; the broker learns of the death only from
\* the event.  After process.exit(0) nobody listens.
TerminalExit(s) ==
    /\ sess[s].ttydProcess = "alive"
    /\ IF broker = "exited"
       THEN Commit([Cur EXCEPT !.sess[s].ttydProcess = "dead"])
       ELSE Commit(OnExit(Cur, s))

\* the 'exit' event of a terminal that was sent SIGKILL
KilledExit(s) ==
    /\ broker # "exited"
    /\ sess[s].ttydProcess = "exiting"
    /\ Commit(OnExit(Cur, s))

\* the callback of scheduleSessionWarning for session s
WarningTimer(s) ==
    /\ broker # "exited"
    /\ sess[s].warnTimer = "armed"
    /\ sess[s].age >= WarningDelay
    /\ LET s1 == [Cur EXCEPT !.sess[s].warnTimer = "fired"]
           a == s1.activeSession
       IN  Commit(IF OwnsSlot(s1, s) /\ Delivered(s1, s1.sess[s].clientId)
                  THEN [s1 EXCEPT
                          !.sess[a].warnings = More(@),
                          !.sess[a].warnedOffTime =
                              @ \/ s1.sess[a].age # WarningDelay]
                  ELSE s1)

\* the callback of scheduleSessionTimeout for session s
TimeoutTimer(s) ==
    /\ broker # "exited"
    /\ sess[s].softTimer = "armed"
    /\ sess[s].age >= TimeoutDelay
    /\ LET s1 == [Cur EXCEPT !.sess[s].softTimer = "fired"] IN
          Commit(IF OwnsSlot(s1, s)
                 THEN EndSession(s1, "timeout", FALSE)
                 ELSE s1)

\* the hardTimeout callback of session s
HardTimeout(s) ==
    /\ broker # "exited"
    /\ sess[s].hardTimeout = "armed"
    /\ sess[s].age >= HardDelay
    /\ LET s1 == [Cur EXCEPT !.sess[s].hardTimeout = "fired"] IN
          Commit(IF OwnsSlot(s1, s)
                 THEN KillSigkill(s1, s1.activeSession)
                 ELSE s1)

\* process.on('SIGTERM')
Sigterm ==
    /\ broker = "up"
    /\ IF activeSession = 0
       THEN Commit([Cur EXCEPT !.broker = "exited"])
       ELSE Commit(EndSession([Cur EXCEPT !.broker = "stopping"],
                              "shutdown", TRUE))

\* five minutes pass: every session whose last deadline is still ahead ages
Tick ==
    /\ broker # "exited"
    /\ ~Busy
    /\ \E s \in SessionIds : sess[s].phase # "none" /\ sess[s].age < HardDelay
    /\ sess' = [s \in SessionIds |->
                  IF sess[s].phase # "none" /\ sess[s].age < HardDelay
                  THEN [sess[s] EXCEPT !.age = @ + 1]
                  ELSE sess[s]]
    /\ UNCHANGED <<clients, queue, activeSession, sessionTokens,
                   pendingSessionTokens, invites, redisQ, nextSid, nextTok,
                   broker, cli, inviteFailures, disconnectGraceTimeout,
                   reconnectionInProgress, reconnects>>

(***************************************************************************)
(* Actions: the operator's CLI and the invite's expiresAt                  *)
(***************************************************************************)
\* revoke(token) up to `await redis.ttl`: the record is read and, in the
\* process's memory, marked revoked; a missing key ends the command
RevokeGet(tok) ==
    /\ cli.pc = "idle"
    /\ cli.runs < MaxRevokes
    /\ cli' = IF invites[tok].status = "none"
              THEN [cli EXCEPT !.runs = @ + 1]
              ELSE [pc |-> "ttl", tok |-> tok, runs |-> cli.runs + 1,
                    snap |-> [invites[tok] EXCEPT !.status = "revoked"]]
    /\ UNCHANGED <<clients, queue, activeSession, sess, sessionTokens,
                   pendingSessionTokens, invites, redisQ, nextSid, nextTok,
                   broker, inviteFailures, disconnectGraceTimeout,
                   reconnectionInProgress, reconnects>>

\* revoke resumed with the ttl: await redis.set
RevokeTtl ==
    /\ cli.pc = "ttl"
    /\ cli' = [cli EXCEPT !.pc = "set"]
    /\ UNCHANGED <<clients, queue, activeSession, sess, sessionTokens,
                   pendingSessionTokens, invites, redisQ, nextSid, nextTok,
                   broker, inviteFailures, disconnectGraceTimeout,
                   reconnectionInProgress, reconnects>>

\* Redis executes revoke's set: the record as revoke read it, marked revoked
RevokeSet ==
    /\ cli.pc = "set"
    /\ Commit([RedisSet(Cur, cli.tok, cli.snap) EXCEPT
                  !.cli = [NoRevoke EXCEPT !.runs = cli.runs]])

\* the invite's expiresAt passes
Expire(tok) ==
    /\ invites[tok].status # "none"
    /\ ~invites[tok].expired
    /\ invites' = [invites EXCEPT ![tok].expired = TRUE]
    /\ UNCHANGED <<clients, queue, activeSession, sess, sessionTokens,
                   pendingSessionTokens, redisQ, nextSid, nextTok, broker,
                   cli, inviteFailures, disconnectGraceTimeout,
                   reconnectionInProgress, reconnects>>

(***************************************************************************)
(* Actions: HTTP endpoints (routes/session.js)                             *)
(***************************************************************************)
\* a request without a token
NoToken == ""
\* a request without a cookie
NoCookie == 0

\* checkInviteRateLimit(ip).allowed: the failures of the address within the
\* window are below the threshold
CheckInviteRateLimit(st, ip) ==
    st.inviteFailures[ip] < INVITE_RATE_LIMIT_MAX_ATTEMPTS

\* recordFailedInviteAttempt(ip)
RecordFailedInviteAttempt(st, ip) ==
    [st EXCEPT !.inviteFailures[ip] = @ + 1]

\* requests to /api/invite/validate that await Redis
InFlight == Cardinality({i \in 1..Len(redisQ) :
                           redisQ[i].k \in {"httpValidate", "httpExpTtl",
                                            "httpExpSet"}})

\* a limiter that lets the request through at the threshold
InviteValidateUnlimited(st, ip, tok) ==
    IF tok = NoToken
    THEN Respond(RecordFailedInviteAttempt(st, ip), ip, "401", "missing")
    ELSE IF Malformed(tok)
    THEN Respond(RecordFailedInviteAttempt(st, ip), ip, "401", "invalid")
    ELSE [st EXCEPT !.redisQ = Append(@, Cmd("httpValidate", 0, ip, tok,
                                             NoSnap, FALSE))]

\* GET /api/invite/validate up to the redis.get of validateInvite
InviteValidateRun(st, ip, tok) ==
    IF ~CheckInviteRateLimit(st, ip)
    THEN Respond(st, ip, "429", "rate_limited")
    ELSE IF tok = NoToken
    THEN Respond(RecordFailedInviteAttempt(st, ip), ip, "401", "missing")
    ELSE IF Malformed(tok)
    THEN Respond(RecordFailedInviteAttempt(st, ip), ip, "401", "invalid")
    ELSE [st EXCEPT !.redisQ = Append(@, Cmd("httpValidate", 0, ip, tok,
                                             NoSnap, FALSE))]

\* GET /api/invite/validate
InviteValidate(ip, tok) ==
    /\ broker # "exited"
    /\ InFlight < MaxInFlight
    /\ Commit(InviteValidateRun(Cur, ip, tok))

\* the endpoint after validateInvite's redis.get was answered
ReplyHttpValidateRun(st0) ==
    LET h == Head(st0.redisQ)
        st == [st0 EXCEPT !.redisQ = Tail(@)]
        v == ValidateInvite(h.tok, st0.invites[h.tok])
    IN  CASE v.reason = "ok" -> Respond(st, h.client, "200", "none")
          [] v.reason = "expired" ->
               [st EXCEPT !.redisQ = Append(@, Cmd("httpExpTtl", 0, h.client,
                                                   h.tok, v.write, FALSE))]
          [] OTHER -> Respond(RecordFailedInviteAttempt(st, h.client),
                              h.client, "401", v.reason)

ReplyHttpValidate ==
    /\ broker # "exited"
    /\ redisQ # <<>>
    /\ Head(redisQ).k = "httpValidate"
    /\ Commit(ReplyHttpValidateRun(Cur))

\* validateInvite resumed with the key's ttl
ReplyHttpExpTtl ==
    /\ broker # "exited"
    /\ redisQ # <<>>
    /\ Head(redisQ).k = "httpExpTtl"
    /\ LET h == Head(redisQ) IN
          Commit([Cur EXCEPT
                    !.redisQ = Append(Tail(@),
                                      Cmd("httpExpSet", 0, h.client, h.tok,
                                          h.snap, FALSE))])

\* the write of the expired record is done: the endpoint answers 401
ReplyHttpExpSetRun(st) ==
    LET h == Head(st.redisQ) IN
       Respond(RecordFailedInviteAttempt(
                   RedisSet([st EXCEPT !.redisQ = Tail(@)], h.tok, h.snap),
                   h.client),
               h.client, "401", "expired")

ReplyHttpExpSet ==
    /\ broker # "exited"
    /\ redisQ # <<>>
    /\ Head(redisQ).k = "httpExpSet"
    /\ Commit(ReplyHttpExpSetRun(Cur))

\* an hour after the oldest failure of the address: it leaves the window
WindowPasses(ip) ==
    /\ inviteFailures[ip] > 0
    /\ Commit([Cur EXCEPT !.inviteFailures[ip] = @ - 1])

\* GET /api/session/validate with the cookie demo_session, asked from ip
SessionValidateRun(st, cookie, ip) ==
    IF cookie = NoCookie
    THEN Respond(st, ip, "401", "none")
    ELSE IF ValidateCookie(st, cookie)
    THEN Respond(st, ip, "200", "none")
    ELSE Respond(IF st.sessionTokens[cookie] # 0
                 THEN [st EXCEPT !.sessionTokens[cookie] = 0]
                 ELSE st,
                 ip, "401", "none")

SessionValidate(cookie, ip) ==
    /\ broker # "exited"
    /\ Commit(SessionValidateRun(Cur, cookie, ip))

(***************************************************************************)
(* The broker with everything its environment can do                      *)
(***************************************************************************)
Next ==
    \/ \E c \in TwoClients : Connect(c)
    \/ \E c \in Clients : JoinQueue(c, MaxJoins, OutcomeSeqs)
    \/ \E c \in Clients, tok \in InviteTokens :
          JoinQueueInvite(c, tok, MaxJoins)
    \/ ReplyValidate(OutcomeSeqs)
    \/ \E c \in Clients : LeaveQueue(c)
    \/ \E c \in Clients : HandleDisconnect(c)
    \/ ReplyInvGet
    \/ ReplyInvSet
    \/ ReplyDel(OutcomeSeqs)
    \/ ReplyStartSetErr(OutcomeSeqs)
    \/ \E s \in SessionIds : TerminalExit(s)
    \/ \E s \in SessionIds : KilledExit(s)
    \/ \E s \in SessionIds : WarningTimer(s)
    \/ \E s \in SessionIds : TimeoutTimer(s)
    \/ \E s \in SessionIds : HardTimeout(s)
    \/ Sigterm
    \/ Tick

Spec == Init /\ [][Next]_vars

(***************************************************************************)
(* The same broker in narrower environments                                *)
(***************************************************************************)
\* No invites, every start succeeds, no shutdown, and every session is over
\* within its first five minutes: clients join, leave and disconnect,
\* terminals exit, Redis answers.  A client asks to join only while it is
\* neither queued nor active.
NextCore ==
    \/ \E c \in Clients : Connect(c)
    \/ \E c \in Clients : JoinQueueIdle(c, MaxJoinsCore, AllOk)
    \/ \E c \in Clients : LeaveQueue(c)
    \/ \E c \in Clients : HandleDisconnect(c)
    \/ ReplyDel(AllOk)
    \/ \E s \in SessionIds : TerminalExit(s)

SpecCore == Init /\ [][NextCore]_vars

\* Invites, failing starts and shutdown; every session is over within its
\* first five minutes.
NextFaults ==
    \/ \E c \in TwoClients : Connect(c)
    \/ \E c \in Clients : JoinQueue(c, MaxJoins, OutcomeSeqs)
    \/ \E c \in Clients, tok \in InviteTokens :
          JoinQueueInvite(c, tok, MaxJoins)
    \/ ReplyValidate(OutcomeSeqs)
    \/ \E c \in Clients : LeaveQueue(c)
    \/ \E c \in Clients : HandleDisconnect(c)
    \/ ReplyInvGet
    \/ ReplyInvSet
    \/ ReplyDel(OutcomeSeqs)
    \/ ReplyStartSetErr(OutcomeSeqs)
    \/ \E s \in SessionIds : TerminalExit(s)
    \/ Sigterm

SpecFaults == Init /\ [][NextFaults]_vars

\* The clock and the timers, failing starts and shutdown; nobody presents an
\* invite, and a client asks to join only while it is neither queued nor
\* active.
NextTimers ==
    \/ \E c \in TwoClients : Connect(c)
    \/ \E c \in Clients : JoinQueueIdle(c, MaxJoins, OutcomeSeqs)
    \/ \E c \in Clients : LeaveQueue(c)
    \/ \E c \in Clients : HandleDisconnect(c)
    \/ ReplyDel(OutcomeSeqs)
    \/ ReplyStartSetErr(OutcomeSeqs)
    \/ \E s \in SessionIds : TerminalExit(s)
    \/ \E s \in SessionIds : WarningTimer(s)
    \/ \E s \in SessionIds : TimeoutTimer(s)
    \/ \E s \in SessionIds : HardTimeout(s)
    \/ Sigterm
    \/ Tick

SpecTimers == Init /\ [][NextTimers]_vars

\* Joins with and without an invite, up to three of them, so that two
\* validations of one client can overlap while the slot is taken; every
\* start succeeds and nobody shuts the broker down.
NextInvites ==
    \/ \E c \in TwoClients : Connect(c)
    \/ \E c \in Clients : JoinQueue(c, MaxJoinsCore, AllOk)
    \/ \E c \in Clients : \E tok \in InviteTokens :
          JoinQueueInvite(c, tok, MaxJoinsCore)
    \/ ReplyValidate(AllOk)
    \/ \E c \in Clients : LeaveQueue(c)
    \/ \E c \in Clients : HandleDisconnect(c)
    \/ ReplyInvGet
    \/ ReplyInvSet
    \/ ReplyDel(AllOk)
    \/ \E s \in SessionIds : TerminalExit(s)

SpecInvites == Init /\ [][NextInvites]_vars

\* Invite validation over every record an invite can be in: never
\* generated, pending, used, revoked (before or after its use), each before
\* and after its expiresAt.
InviteRecords ==
    {NoSnap} \cup
    {[status |-> st, useCount |-> n,
      sessions |-> IF n = 0 THEN {} ELSE {EarlierSession}, expired |-> e] :
        st \in {"pending", "used", "revoked"}, n \in 0..MAX_USES,
        e \in BOOLEAN}

\* the records that consumption and revocation produce
Producible(inv) ==
    \/ inv = NoSnap
    \/ inv.status = "pending" /\ inv.useCount < MAX_USES
    \/ inv.status = "used" /\ inv.useCount >= MAX_USES
    \/ inv.status = "revoked"

InitValidate ==
    /\ clients = [c \in Clients |->
                    [conn |-> "none", state |-> "connected",
                     inviteToken |-> NoInvite, pendingSessionToken |-> 0]]
    /\ queue = <<>>
    /\ activeSession = 0
    /\ sess = [s \in SessionIds |-> NoSession]
    /\ sessionTokens = [t \in TokenIds |-> 0]
    /\ pendingSessionTokens = [t \in TokenIds |-> NoClient]
    /\ invites \in [InviteTokens -> {inv \in InviteRecords : Producible(inv)}]
    /\ cli = NoRevoke
    /\ inviteFailures = [a \in Addresses |-> 0]
    /\ disconnectGraceTimeout = "none"
    /\ reconnectionInProgress = FALSE
    /\ reconnects = <<>>
    /\ redisQ = <<>>
    /\ nextSid = 1
    /\ nextTok = 1
    /\ broker = "up"

NextValidate ==
    \/ \E c \in TwoClients : Connect(c)
    \/ \E c \in Clients : \E tok \in PresentedTokens :
          JoinQueueInvite(c, tok, MaxJoins)
    \/ ReplyValidate(AllOk)
    \/ ReplyExpTtl
    \/ ReplyExpSet
    \/ \E c \in Clients : LeaveQueue(c)
    \/ \E c \in Clients : HandleDisconnect(c)
    \/ ReplyInvGet
    \/ ReplyInvSet
    \/ ReplyDel(AllOk)
    \/ \E s \in SessionIds : TerminalExit(s)

SpecValidate == InitValidate /\ [][NextValidate]_vars

\* The invite store under everything that writes to it: joins with an
\* invite (validation and its expired fix-up), sessions ending (consume), the
\* operator revoking, and the invite's expiresAt passing.  Every start
\* succeeds and nobody shuts the broker down.
NextStore ==
    \/ \E c \in TwoClients : Connect(c)
    \/ \E c \in Clients : \E tok \in InviteTokens :
          JoinQueueInvite(c, tok, MaxJoins)
    \/ ReplyValidate(AllOk)
    \/ ReplyExpTtl
    \/ ReplyExpSet
    \/ \E c \in Clients : HandleDisconnect(c)
    \/ ReplyInvGet
    \/ ReplyInvSet
    \/ ReplyDel(AllOk)
    \/ \E s \in SessionIds : TerminalExit(s)
    \/ \E tok \in InviteTokens : RevokeGet(tok)
    \/ RevokeTtl
    \/ RevokeSet
    \/ \E tok \in InviteTokens : Expire(tok)

SpecStore == Init /\ [][NextStore]_vars

\* The invite validation endpoint: requests to /api/invite/validate from two
\* addresses, without a token, with a malformed one and with a generated
\* one, up to MaxInFlight of them awaiting Redis; the invite's expiresAt
\* passes and failures leave the window.
NextHttp ==
    \/ \E ip \in Addresses : \E tok \in PresentedTokens \cup {NoToken} :
          InviteValidate(ip, tok)
    \/ ReplyHttpValidate
    \/ ReplyHttpExpTtl
    \/ ReplyHttpExpSet
    \/ \E tok \in InviteTokens : Expire(tok)
    \/ \E ip \in Addresses : WindowPasses(ip)

SpecHttp == Init /\ [][NextHttp]_vars

\* The session validation endpoint beside clients that join with and
\* without an invite: requests to /api/session/validate with any cookie
\* from either address.  Every start succeeds.
NextCookie ==
    \/ \E c \in TwoClients : Connect(c)
    \/ \E c \in Clients : JoinQueue(c, MaxJoins, AllOk)
    \/ \E c \in Clients : \E tok \in InviteTokens :
          JoinQueueInvite(c, tok, MaxJoins)
    \/ ReplyValidate(AllOk)
    \/ \E c \in Clients : LeaveQueue(c)
    \/ \E c \in Clients : HandleDisconnect(c)
    \/ ReplyInvGet
    \/ ReplyInvSet
    \/ ReplyDel(AllOk)
    \/ \E s \in SessionIds : TerminalExit(s)
    \/ \E cookie \in TokenIds \cup {NoCookie} : \E ip \in Addresses :
          SessionValidate(cookie, ip)

SpecCookie == Init /\ [][NextCookie]_vars

\* The clock and the timers without shutdown, under the event loop's
\* scheduling: a reply that has arrived and a timer that is due are run, and
\* time passes.  Client c2 is patient: once queued it never sends
\* leave_queue.
Patient == "c2"

NextLive ==
    \/ \E c \in TwoClients : Connect(c)
    \/ \E c \in Clients : JoinQueueIdle(c, MaxJoins, OutcomeSeqs)
    \/ \E c \in Clients \ {Patient} : LeaveQueue(c)
    \/ \E c \in Clients : HandleDisconnect(c)
    \/ ReplyDel(OutcomeSeqs)
    \/ ReplyStartSetErr(OutcomeSeqs)
    \/ \E s \in SessionIds : TerminalExit(s)
    \/ \E s \in SessionIds : WarningTimer(s)
    \/ \E s \in SessionIds : TimeoutTimer(s)
    \/ \E s \in SessionIds : HardTimeout(s)
    \/ Tick

\* one turn of the event loop: it runs a reply that has arrived or a timer
\* that is due, or time passes
EventLoopTurn ==
    \/ ReplyDel(OutcomeSeqs)
    \/ ReplyStartSetErr(OutcomeSeqs)
    \/ \E s \in SessionIds : WarningTimer(s)
    \/ \E s \in SessionIds : TimeoutTimer(s)
    \/ \E s \in SessionIds : HardTimeout(s)
    \/ Tick

SpecLive == Init /\ [][NextLive]_vars /\ WF_vars(EventLoopTurn)

(***************************************************************************)
(* Properties                                                              *)
(***************************************************************************)
\* a session that was started (terminal spawned, slot assigned) and whose
\* termination has not completed
Unfinished(s) == sess[s].phase \in {"running", "ending"}

FilesPresent == {s \in SessionIds : sess[s].envFile}

\* terminals that are alive and were not told to terminate
TerminalsServing ==
    {s \in SessionIds : sess[s].ttydProcess = "alive" /\ ~sess[s].sigterm}

\* C1: at most one session exists at any instant: every session that was
\* started and whose termination has not completed is the one the slot
\* holds (so no session is started beside it, and the slot is not cleared or
\* overwritten under it).
C1_AtMostOneSession ==
    /\ Cardinality({s \in SessionIds : Unfinished(s)}) <= 1
    /\ \A s \in SessionIds : Unfinished(s) => activeSession = s

\* C2: the slot is non-null exactly when one terminal process is alive and
\* one credential file exists.  Read with the allowance the termination
\* protocol needs (while a session is ending the slot is still held, its
\* file is gone and its terminal has been told to terminate): with the slot
\* null there is no credential file and no terminal still serving, with the
\* slot held there is at most one of each.
C2_SlotIffTerminalAndFile ==
    /\ activeSession = 0 => FilesPresent = {} /\ TerminalsServing = {}
    /\ activeSession # 0 => /\ Cardinality(FilesPresent) <= 1
                            /\ Cardinality(TerminalsServing) <= 1

\* C3: a session's credential file is unlinked before the next session's
\* file is created: two sessions' credential files never exist at the same
\* time.
C3_OneCredentialFile == Cardinality(FilesPresent) <= 1

\* C4: termination is re-entrancy safe: per session at most one
\* session_ended message, at most one invite consume, at most one data reset
\* and at most one promotion of the next client (processQueue follows every
\* data reset).
C4_EndSessionOnce ==
    \A s \in SessionIds :
       /\ sess[s].endedMsgs <= 1
       /\ sess[s].consumes <= 1
       /\ sess[s].resets <= 1

\* C5: for every session whose credential file was created the cleanup
\* closure is invoked exactly once: never twice, and once the session is
\* over not zero times.
C5_CleanupExactlyOnce ==
    \A s \in SessionIds :
       /\ sess[s].cleanupCalls <= 1
       /\ sess[s].phase \in {"failed", "ended"} => sess[s].cleanupCalls = 1

\* C6: no timer of a session whose termination has completed (the slot went
\* back to Idle for it) is still pending.
C6_NoTimerOutlivesSession ==
    \A s \in SessionIds :
       sess[s].phase = "ended" =>
          /\ sess[s].warnTimer # "armed"
          /\ sess[s].softTimer # "armed"
          /\ sess[s].hardTimeout # "armed"

\* C7: no session is ended with reason timeout before its own deadline, its
\* start time + SESSION_TIMEOUT_MINUTES.
C7_NoTimeoutBeforeDeadline ==
    \A s \in SessionIds : ~sess[s].endedEarly

\* C8: session_warning is sent at most once per session and only five
\* minutes before that session's own expiry.
C8_WarningOnceOnTime ==
    \A s \in SessionIds :
       /\ sess[s].warnings <= 1
       /\ ~sess[s].warnedOffTime

\* C9: the hard-kill timer is an unconditional backstop: no terminal that was
\* sent SIGTERM is alive when hard expiry + 5 minutes has passed and the
\* timer has nothing left to do.
C9_HardKillBackstop ==
    \A s \in SessionIds :
       (/\ sess[s].ttydProcess = "alive"
        /\ sess[s].sigterm
        /\ sess[s].age >= HardDelay) => sess[s].hardTimeout = "armed"

\* C10: in endSession the credential file is removed before the session
\* token is cleared, and at every session_ended sent for a session its file
\* is gone and its token is rejected by GET /api/session/validate.
C10_TornDownBeforeNotify ==
    \A s \in SessionIds :
       /\ sess[s].cleanedAtClear
       /\ sess[s].tornAtNotify

\* C10 happens: the owner of a session that held a file and a token, and
\* whose endSession waited for the invite's usage record, received
\* session_ended
C10_Witness ==
    \E s \in SessionIds :
       /\ sess[s].endedMsgs >= 1
       /\ sess[s].sessionToken # 0
       /\ sess[s].inviteToken # NoInvite
       /\ sess[s].cleanupCalls >= 1

(***************************************************************************)
(* The queue                                                               *)
(***************************************************************************)
\* the clients queued ahead of c, or the whole queue when c is not in it
Ahead(q, c) ==
    {q[i] : i \in 1..(IF IndexOf(q, c) = 0 THEN Len(q) ELSE IndexOf(q, c) - 1)}

\* C11: promotion is strictly first-in, first-out: in every step that starts
\* a session, the client it starts was the head of the queue, that is, no
\* client that was queued ahead of it is still waiting afterwards
C11_PromotionIsFifo ==
    [][\A s \in SessionIds :
          (sess[s].phase = "none" /\ sess'[s].phase = "running") =>
              Ahead(queue, sess'[s].clientId) \cap Range(queue') = {}]_vars

\* a session that was promoted out of the queue is running and a client
\* that joined after its owner is still waiting behind it
C11_Witness ==
    \E s \in SessionIds :
       /\ s > 1
       /\ activeSession = s
       /\ sess[s].phase = "running"
       /\ queue # <<>>
       /\ clients[Head(queue)].pendingSessionToken > sess[s].sessionToken

\* the patient client waits in the queue on an open socket
PatientQueued ==
    Patient \in Range(queue) /\ clients[Patient].conn = "open"

\* C12: every client that is enqueued, stays connected and sends no
\* leave_queue eventually receives session_starting or, when its own start
\* fails, the `error` of the failed start
C12_FairPromotion ==
    PatientQueued ~> \/ clients[Patient].state = "active"
                     \/ clients[Patient].conn # "open"
                     \/ /\ clients[Patient].state = "connected"
                        /\ Patient \notin Range(queue)

\* C12 as stated: ... eventually receives session_starting
C12_AsStated ==
    PatientQueued ~> \/ clients[Patient].state = "active"
                     \/ clients[Patient].conn # "open"

\* the patient client waited behind another client's session and now holds
\* the slot
C12_Witness ==
    \E s \in SessionIds :
       /\ s > 1
       /\ activeSession = s
       /\ sess[s].clientId = Patient
       /\ sess[s].phase = "running"
       /\ clients[Patient].state = "active"
       /\ sess[1].clientId # Patient

\* the last thing the run told each client that is still waiting on an open
\* socket is its place in the queue and the queue's length
PositionsFresh(st) ==
    \A d \in Range(st.queue) :
        Delivered(st, d) =>
            Msg(d, "queue_position", IndexOf(st.queue, d), Len(st.queue))
                \in st.out

\* C13: after every enqueue, every leave_queue and every disconnect of a
\* queued client, each client still queued has been sent a queue_position
\* with its current 1-based index and the current queue length
C13_PositionsRebroadcast ==
    \A c \in Clients :
       (broker # "exited" /\ clients[c].conn = "open") =>
          /\ (c \notin Range(queue) /\ Len(queue) < MAX_QUEUE_SIZE) =>
                 PositionsFresh(JoinQueueRun(Cur, c, <<>>))
          /\ c \in Range(queue) =>
                 /\ PositionsFresh(LeaveQueueRun(Cur, c))
                 /\ PositionsFresh(HandleDisconnectRun(Cur, c))

\* C14: when the end of a session promotes the head of the queue, the
\* clients that remain queued are sent their new positions, one less than
\* before, so that the last queue_position a queued client received is its
\* current index
C14_PromotionShiftsPositions ==
    (broker # "exited" /\ redisQ # <<>> /\ Head(redisQ).k = "del") =>
        LET h == Head(redisQ)
            st == EndFinish([Cur EXCEPT !.redisQ = Tail(@)], h.sid, h.sd, <<>>)
        IN  (queue # <<>> /\ st.queue # queue) => PositionsFresh(st)

\* what a run of a handler leaves behind, without the messages it sent
Kept(st) == [st EXCEPT !.out = {}]

C16_NoDuplicateInQueue ==
    \A i, j \in 1..Len(queue) : i # j => queue[i] # queue[j]

\* the client whose session holds the slot
Owner == sess[activeSession].clientId

\* C17: a join_queue from the client that owns the active session fails
\* with error "Already in queue" and changes nothing, so the owner is never
\* in the queue
C17_OwnerNeverQueued ==
    (activeSession # 0 /\ broker # "exited") =>
        /\ Owner \notin Range(queue)
        /\ clients[Owner].conn = "open" =>
              LET st == JoinQueueRun(Cur, Owner, <<>>) IN
                 /\ st.out = {Msg(Owner, "error: Already in queue", 0, 0)}
                 /\ Kept(st) = Cur

\* C18: leave_queue is idempotent: the first one takes the client out of
\* the queue and sends it left_queue; a second one, or one from a client
\* that is not queued, changes no state and sends no message
C18_LeaveIdempotent ==
    \A c \in Clients :
       (broker # "exited" /\ clients[c].conn = "open") =>
          LET once == LeaveQueueRun(Cur, c)
              twice == LeaveQueueRun(Kept(once), c)
          IN  /\ c \in Range(queue) =>
                    /\ c \notin Range(once.queue)
                    /\ Len(once.queue) = Len(queue) - 1
                    /\ Msg(c, "left_queue", 0, 0) \in once.out
              /\ c \notin Range(queue) => once = Cur
              /\ twice = Kept(once)

(***************************************************************************)
(* Invites                                                                 *)
(***************************************************************************)
\* what validateInvite can be called with: a presented token, or none
AnyToken == PresentedTokens \cup {""}

\* what redis.get answers for a token: only generated tokens have a key
Stored(tok) == IF tok \in InviteTokens THEN invites[tok] ELSE NoSnap

\* the checks a presented token fails, each taken by itself
Failing(tok, inv) ==
    (IF TokenLength(tok) < MIN_TOKEN_LENGTH THEN {"invalid"} ELSE {})
    \cup (IF inv.status = "none" THEN {"not_found"} ELSE {})
    \cup (IF inv.status = "revoked" THEN {"revoked"} ELSE {})
    \cup (IF inv.status = "used"
              \/ (inv.status # "none" /\ inv.useCount >= MAX_USES)
          THEN {"used"} ELSE {})
    \cup (IF inv.expired THEN {"expired"} ELSE {})

\* malformed -> not found -> revoked -> used -> expired
CheckOrder == <<"invalid", "not_found", "revoked", "used", "expired">>

FirstFailing(F) ==
    IF F = {} THEN "ok"
    ELSE CheckOrder[CHOOSE i \in 1..Len(CheckOrder) :
                       /\ CheckOrder[i] \in F
                       /\ \A j \in 1..(i - 1) : CheckOrder[j] \notin F]

\* C19: validation checks in the order malformed, not found, revoked, used
\* (status used or use count at max uses), expired, and answers the first
\* check that fails (a revoked and expired invite is "revoked"); only the
\* expired verdict writes to the record, and what it writes is the status
C19_ValidationOrder ==
    \A tok \in AnyToken :
       LET inv == Stored(tok)
           v == ValidateInvite(tok, inv)
       IN  /\ v.reason = FirstFailing(Failing(tok, inv))
           /\ v.reason = "expired" => v.write = [inv EXCEPT !.status = "expired"]
           /\ v.reason # "expired" => v.write = NoSnap

\* a validation found an invite past its expiresAt and marked it expired
C19_Witness ==
    \E tok \in InviteTokens :
       invites[tok].status = "expired" /\ invites[tok].expired

\* the sessions that were started with invite tok bound to them
StartedWith(tok) ==
    {s \in SessionIds : sess[s].phase # "none" /\ sess[s].inviteToken = tok}

\* C20: an invite authorizes at most max_uses session starts: never more
\* than max_uses sessions are started with the token bound, and its use
\* count never exceeds max_uses, also when several clients present it while
\* an earlier session that uses it is still running
C20_InviteUsesBounded ==
    \A tok \in InviteTokens :
       /\ Cardinality(StartedWith(tok)) <= MAX_USES
       /\ invites[tok].useCount <= MAX_USES


\* C21: counted from the generated record (pending, use count 0), an invite
\* is used once max_uses consumes have been written and not before: below
\* max_uses its status is pending and validation answers ok, from max_uses
\* on its status is used and validation answers used.  Stated where nobody
\* revokes and the invite stays within its expiresAt.
C21_UsedAtMaxUses ==
    \A tok \in InviteTokens :
       LET inv == invites[tok]
           v == ValidateInvite(tok, inv).reason
       IN  /\ inv.useCount < MAX_USES =>
                 inv.status = "pending" /\ v = "ok"
           /\ inv.useCount >= MAX_USES =>
                 inv.status = "used" /\ v = "used"

\* the consume of a session that was started with the invite has been written
C21_Witness ==
    \E tok \in InviteTokens : \E s \in SessionIds :
       /\ invites[tok].useCount = MAX_USES
       /\ invites[tok].sessions = {s}
       /\ sess[s].inviteToken = tok

\* C22: in every state of the store, an invite whose status is used has at
\* least one session record in its audit trail
C22_UsedHasSessionRecord ==
    \A tok \in InviteTokens :
       invites[tok].status = "used" => invites[tok].sessions # {}

\* an invite is used while the operator's revoke, which read it before the
\* consume was written, is about to write
C22_Witness ==
    \E tok \in InviteTokens :
       /\ invites[tok].status = "used"
       /\ cli.pc = "set" /\ cli.tok = tok /\ cli.snap.useCount = 0

\* the statuses an invite never leaves
TerminalStatuses == {"used", "expired", "revoked"}

\* C23: an invite's status is monotonic: once it is used, expired or revoked
\* no step changes it to any other status, however validation, consumption
\* and the operator's revoke interleave; a revoked invite is never pending
\* again and never validates ok
C23_StatusMonotonic ==
    [][\A tok \in InviteTokens :
          invites[tok].status \in TerminalStatuses =>
             invites'[tok].status = invites[tok].status]_vars

\* C24: the audit trail is append-only: a session-usage record that is in
\* the stored invite is in it after every later step, however the
\* read-modify-write sequences of validation's expired fix-up, of
\* consumption and of revoke interleave
C24_AuditAppendOnly ==
    [][\A tok \in InviteTokens :
          invites[tok].sessions \subseteq invites'[tok].sessions]_vars

\* C25: when an invite's expiresAt passes while a session started with it
\* is running, the session's usage is in the audit trail once the session
\* has ended, and from then on validation answers used, not expired.
\* Stated where the operator does not revoke.
C25_ExpiryDuringSession ==
    \A tok \in InviteTokens : \A s \in SessionIds :
       (/\ cli = NoRevoke
        /\ sess[s].inviteToken = tok
        /\ sess[s].phase = "ended"
        /\ invites[tok].expired)
       => /\ s \in invites[tok].sessions
          /\ ValidateInvite(tok, invites[tok]).reason = "used"

RejectedCleanly(st, r, c, reason) ==
    /\ r.out = {[Msg(c, "invite_invalid", 0, 0) EXCEPT !.reason = reason]}
    /\ r.clients = st.clients
    /\ r.queue = st.queue
    /\ r.activeSession = st.activeSession
    /\ r.sess = st.sess
    /\ r.sessionTokens = st.sessionTokens
    /\ r.pendingSessionTokens = st.pendingSessionTokens

\* the limiter's count of the client's address went up by one
CountedOnce(st, r, c) ==
    r.inviteFailures =
       [st.inviteFailures EXCEPT ![ClientIp(c)] = @ + 1]

\* C27: a join_queue whose invite token fails validation (malformed; or not
\* found, revoked, used when Redis has answered; or expired when the record
\* marked expired has been written) is answered invite_invalid with the
\* validation's reason and has no other effect: the client is not
\* enqueued, no session is started, the client's state and bound invite
\* token are unchanged, and the failed-attempt count of the caller's
\* address is one higher
C27_RejectedJoinOnlyCounts ==
    /\ \A c \in Clients : \A tok \in PresentedTokens :
          (clients[c].conn = "open" /\ c \notin Range(queue)
              /\ Malformed(tok))
          => LET r == JoinQueueInviteRun(Cur, c, tok)
             IN  RejectedCleanly(Cur, r, c, "invalid")
                 /\ CountedOnce(Cur, r, c)
    /\ (redisQ # <<>> /\ Head(redisQ).k = "validate")
       => LET h == Head(redisQ)
              v == ValidateInvite(h.tok, invites[h.tok]).reason
              r == ReplyValidateRun(Cur, <<>>)
          IN  v \in {"not_found", "revoked", "used"} =>
                 RejectedCleanly(Cur, r, h.client, v)
                 /\ CountedOnce(Cur, r, h.client)
    /\ (redisQ # <<>> /\ Head(redisQ).k = "expSet")
       => LET r == ReplyExpSetRun(Cur)
          IN  RejectedCleanly(Cur, r, Head(redisQ).client, "expired")
              /\ CountedOnce(Cur, r, Head(redisQ).client)

\* C28: access is by invite only: every client in the queue and the owner
\* of every session that was started sent a join_queue whose invite token
\* validated ok, so an invite token is bound to it
C28_InviteOnly ==
    /\ \A c \in Range(queue) : clients[c].inviteToken # NoInvite
    /\ \A s \in SessionIds :
          sess[s].phase # "none" => sess[s].inviteToken # NoInvite

\* the session token is in the pending map or in the map of active tokens
InTokenMaps(cookie) ==
    /\ cookie # NoCookie
    /\ \/ pendingSessionTokens[cookie] # NoClient
       \/ sessionTokens[cookie] # 0

\* the addresses a token in the maps was minted for: that of the client it
\* is pending for, that of the owner of the session it opens
MintedFrom(cookie) ==
    (IF pendingSessionTokens[cookie] # NoClient
     THEN {ClientIp(pendingSessionTokens[cookie])} ELSE {})
    \cup (IF sessionTokens[cookie] # 0
          THEN {ClientIp(sess[sessionTokens[cookie]].clientId)} ELSE {})

\* C29: /api/session/validate answers 200 only when the cookie is a token
\* in the active or pending token map and the request comes from the
\* address the token was minted for; every other request (no cookie, a
\* token in neither map, a token asked for from another address) is
\* answered 401
C29_CookieBoundToAddress ==
    \A cookie \in TokenIds \cup {NoCookie} : \A ip \in Addresses :
       LET r == SessionValidateRun(Cur, cookie, ip)
       IN  IF InTokenMaps(cookie) /\ ip \in MintedFrom(cookie)
           THEN r.out \subseteq {Msg(ip, "200", 0, 0), Msg(ip, "401", 0, 0)}
           ELSE r.out = {Msg(ip, "401", 0, 0)}

\* what a failed start of session sid for client c must leave behind in r:
\* the slot does not hold the session and its terminal is not running, its
\* credential file is gone, the client was sent error and is in state
\* connected, and a client that waits with its socket open was promoted
FailedStartUndone(r, c, sid) ==
    /\ r.activeSession # sid
    /\ r.sess[sid].ttydProcess # "alive"
    /\ ~r.sess[sid].envFile
    /\ Msg(c, StartError, 0, 0) \in r.out
    /\ r.clients[c].conn = "open" => r.clients[c].state = "connected"
    /\ r.activeSession = 0 =>
          \A d \in Range(r.queue) : r.clients[d].conn # "open"

\* C30: when a start fails, whether createSessionEnvFile throws, spawn
\* throws, or the write of the session to Redis rejects after the client
\* was notified, then after the catch has run the slot is Idle (it does not
\* hold the failed session, whose terminal is not running), the credential
\* file is removed, the client has received error and is in state
\* connected, and the next queued client is promoted
C30_FailedStartRestoresIdle ==
    /\ \A c \in Clients : \A o \in {"envFail", "spawnFail"} :
          (clients[c].conn = "open" /\ queue = <<>> /\ activeSession = 0
              /\ nextSid \in SessionIds)
          => FailedStartUndone(JoinQueueRun(Cur, c, <<o>>), c, nextSid)
    /\ (redisQ # <<>> /\ Head(redisQ).k = "startSet")
       => LET h == Head(redisQ)
          IN  FailedStartUndone(
                  StartCatch([Cur EXCEPT !.redisQ = Tail(@)], h.sid,
                             h.client, <<>>),
                  h.client, h.sid)

(***************************************************************************)
(* Shutdown                                                                *)
(***************************************************************************)
\* a session whose terminal may still serve: it was started and its
\* endSession has not run to its end
Live(s) == sess[s].phase \in {"running", "ending"}

\* C31: on SIGTERM with a session active that session is ended (its
\* terminal signalled, its invite usage recorded, its owner notified) before
\* the process exits: at process exit the slot is empty and no session is
\* left that was started and not ended
C31_ShutdownEndsSession ==
    broker = "exited" =>
        /\ activeSession = 0
        /\ \A s \in SessionIds : ~Live(s)

(***************************************************************************)
(* Disconnect of the owner                                                 *)
(***************************************************************************)
\* C32: when the connection of the active session's owner closes, the
\* session is not ended at once: after the close handler has run, the
\* session still holds the slot and is running, its terminal has not been
\* signalled, its credential file and its session token are in place, and
\* no endSession is under way (the session stays alive for the disconnect
\* grace window and is ended with reason disconnected only when the window
\* elapses without a reconnect)
C32_DisconnectGrace ==
    \A c \in Clients :
       (/\ broker = "up"
        /\ clients[c].conn = "open"
        /\ activeSession # 0
        /\ sess[activeSession].clientId = c
        /\ sess[activeSession].phase = "running")
       => LET a == activeSession
              r == HandleDisconnectRun(Cur, c)
          IN  /\ r.activeSession = a
              /\ r.sess[a] = sess[a]
              /\ r.sessionTokens = sessionTokens
              /\ r.redisQ = redisQ

(***************************************************************************)
(* Reconnect grace.  state.js holds disconnectGraceTimeout and             *)
(* reconnectionInProgress with their accessors; the handlers that use      *)
(* them are not among the sources and are written here from the design     *)
(* documentation: the close of the owner's socket opens a grace window, a  *)
(* reconnect attempt takes the lock, verifies the token it presents, and   *)
(* is rebound to the session if that still awaits its owner.  The window   *)
(* (config.DISCONNECT_GRACE_MS) is a timer that fires at any later moment. *)
(***************************************************************************)
\* isReconnectionInProgress()
IsReconnectionInProgress(st) == st.reconnectionInProgress

\* a setter that drops the value it is given
SetReconnectionInProgressLost(st, inProgress) == st

\* setReconnectionInProgress(inProgress)
SetReconnectionInProgress(st, inProgress) ==
    [st EXCEPT !.reconnectionInProgress = inProgress]

\* setDisconnectGraceTimeout(setTimeout(..., DISCONNECT_GRACE_MS))
SetDisconnectGraceTimeout(st) ==
    [st EXCEPT !.disconnectGraceTimeout = "armed"]

\* clearDisconnectGraceTimeout()
ClearDisconnectGraceTimeout(st) ==
    IF st.disconnectGraceTimeout # "none"
    THEN [st EXCEPT !.disconnectGraceTimeout = "none"]
    ELSE st

\* the close handler with the grace window: the queue is handled as in
\* handleDisconnect; the owner's session is not ended but awaits a reconnect
HandleDisconnectGraceRun(st, c) ==
    LET s0 == [st EXCEPT !.clients[c].conn = "closing"]
        s1 == IF IndexOf(s0.queue, c) # 0
              THEN BroadcastQueueUpdate([s0 EXCEPT !.queue = Without(@, c)])
              ELSE s0
        a == s1.activeSession
        s2 == IF a # 0 /\ s1.sess[a].clientId = c
              THEN SetDisconnectGraceTimeout(
                       ClearDisconnectGraceTimeout(
                           [s1 EXCEPT !.sess[a].awaitingReconnect = TRUE]))
              ELSE s1
    IN  [s2 EXCEPT !.clients[c].conn = "closed",
                   !.clients[c].state = "closed"]

HandleDisconnectGrace(c) ==
    /\ broker # "exited"
    /\ clients[c].conn = "open"
    /\ Commit(HandleDisconnectGraceRun(Cur, c))

\* the grace timer fires: the session that still awaits its owner is ended
GraceTimeoutRun(st) ==
    LET s1 == [st EXCEPT !.disconnectGraceTimeout = "none"]
        a == s1.activeSession
    IN  IF a # 0 /\ s1.sess[a].awaitingReconnect
        THEN EndSession([s1 EXCEPT !.sess[a].awaitingReconnect = FALSE],
                        "disconnected", FALSE)
        ELSE s1

GraceTimeout ==
    /\ broker # "exited"
    /\ disconnectGraceTimeout = "armed"
    /\ Commit(GraceTimeoutRun(Cur))

ReconnectBusy == "error: Reconnection in progress"
ReconnectRefused == "error: No session to reconnect to"

\* a reconnect attempt of connection c with session token tok, up to the
\* await of the token's verification: the lock is taken or the attempt is
\* turned away
ReconnectBeginRun(st, c, tok) ==
    IF IsReconnectionInProgress(st)
    THEN Send(st, c, ReconnectBusy)
    ELSE [SetReconnectionInProgress(st, TRUE) EXCEPT
             !.reconnects = Append(@, [client |-> c, tok |-> tok])]

ReconnectBegin(c, tok) ==
    /\ broker # "exited"
    /\ clients[c].conn = "open"
    /\ clients[c].state = "connected"
    /\ Commit(ReconnectBeginRun(Cur, c, tok))

\* the attempt resumes: the session that awaits its owner and carries the
\* presented token is rebound to the new connection and the grace timer is
\* cancelled; the lock is released in any case (finally)
ReconnectFinishRun(st0) ==
    LET h == Head(st0.reconnects)
        st == [st0 EXCEPT !.reconnects = Tail(@)]
        a == st.activeSession
        s1 == IF /\ a # 0
                 /\ st.sess[a].awaitingReconnect
                 /\ st.sess[a].sessionToken = h.tok
                 /\ FindClientWs(st, h.client)
              THEN Send(ClearDisconnectGraceTimeout(
                            [st EXCEPT
                               !.sess[a].clientId = h.client,
                               !.sess[a].awaitingReconnect = FALSE,
                               !.clients[h.client].state = "active",
                               !.clients[h.client].pendingSessionToken =
                                   h.tok]),
                        h.client, "reconnected")
              ELSE Send(st, h.client, ReconnectRefused)
    IN  SetReconnectionInProgress(s1, FALSE)

ReconnectFinish ==
    /\ broker # "exited"
    /\ reconnects # <<>>
    /\ Commit(ReconnectFinishRun(Cur))

\* Sessions whose owners come and go: joins without invites, every start
\* succeeds, the owner's close opens the grace window.
NextReconnect ==
    \/ \E c \in Clients : Connect(c)
    \/ \E c \in Clients : JoinQueueIdle(c, MaxJoins, AllOk)
    \/ \E c \in Clients : HandleDisconnectGrace(c)
    \/ \E c \in Clients : \E tok \in 1..MaxJoins : ReconnectBegin(c, tok)
    \/ ReconnectFinish
    \/ GraceTimeout
    \/ ReplyDel(AllOk)
    \/ \E s \in SessionIds : TerminalExit(s)

SpecReconnect == Init /\ [][NextReconnect]_vars

\* the session awaits its owner and carries the token of the attempt that
\* holds the lock
Rebindable(st, h) ==
    /\ st.activeSession # 0
    /\ st.sess[st.activeSession].awaitingReconnect
    /\ st.sess[st.activeSession].sessionToken = h.tok
    /\ FindClientWs(st, h.client)

StartedDirectly(r, c) ==
    /\ Msg(c, "session_starting", 0, 0) \in r.out
    /\ \A m \in r.out : m.type = "queue_position" =>
          /\ m.to # c
          /\ m.queue_size = 0
    /\ r.queue = <<>>
    /\ r.activeSession # 0
    /\ r.sess[r.activeSession].clientId = c
    /\ r.clients[c].state = "active"

Quiescent == redisQ = <<>> /\ reconnects = <<>>

\* C35: work conservation.  At every quiescent point (no handler is
\* mid-execution), if no session is active then the queue is empty: a
\* connected client is never left waiting while the slot is idle
C35_WorkConserving ==
    (broker = "up" /\ Quiescent /\ activeSession = 0) => queue = <<>>

\* the slot is idle and nothing is pending after two clients were served
\* one after the other, both still connected
C35_Witness ==
    /\ broker = "up" /\ Quiescent /\ activeSession = 0 /\ queue = <<>>
    /\ sess[1].phase = "ended" /\ sess[2].phase = "ended"
    /\ sess[1].clientId # sess[2].clientId
    /\ clients[sess[1].clientId].conn = "open"
    /\ clients[sess[2].clientId].conn = "open"

\* every queue_position the run r sent carries a position between 1 and its
\* queue_size and went to a client that was in the queue
GoodPositions(r) ==
    \A m \in r.out : m.type = "queue_position" =>
       /\ m.position >= 1
       /\ m.position <= m.queue_size
       /\ m.to \in Range(r.queue)

\* C36: every queue_position sent carries a position p with
\* 1 <= p <= queue_size and is sent only to a client that is in the queue at
\* that moment; no client is ever sent position 0, the client whose
\* disconnect triggered the broadcast included
C36_PositionsInRange ==
    broker = "up" =>
       \A c \in Clients : clients[c].conn = "open" =>
          /\ GoodPositions(JoinQueueRun(Cur, c, <<>>))
          /\ GoodPositions(LeaveQueueRun(Cur, c))
          /\ GoodPositions(HandleDisconnectRun(Cur, c))

\* C37: in every quiescent state each connected client's state field agrees
\* with the queue and the slot: it is 'queued' exactly when its id is in the
\* queue, and 'active' exactly when it is the owner recorded in the active
\* session
C37_ClientStateAgrees ==
    (broker = "up" /\ Quiescent) =>
       \A c \in Clients : clients[c].conn = "open" =>
          /\ clients[c].state = "queued" <=> c \in Range(queue)
          /\ clients[c].state = "active" <=>
                (activeSession # 0 /\ sess[activeSession].clientId = c)

\* C38: no queue entry is created and no session is started for a client
\* whose connection has already closed: when a client disconnected while its
\* join_queue was suspended on the invite validation, the resumed join
\* neither enqueues it nor spawns a terminal for it
C38_NoJoinAfterClose ==
    (/\ broker = "up"
     /\ redisQ # <<>>
     /\ Head(redisQ).k = "validate"
     /\ clients[Head(redisQ).client].conn = "closed")
    => LET r == ReplyValidateRun(Cur, <<>>)
       IN  /\ Head(redisQ).client \notin Range(r.queue)
           /\ r.nextSid = nextSid
           /\ r.activeSession = activeSession

(***************************************************************************)
(* Session tokens                                                          *)
(***************************************************************************)
\* C39: the active token map holds only the current session's token: every
\* entry of sessionTokens maps the active session's token to the active
\* session's id (the map is empty when the slot is null), and no token is in
\* sessionTokens and in pendingSessionTokens at the same time
C39_ActiveTokenOnly ==
    \A t \in TokenIds :
       /\ sessionTokens[t] # 0 =>
             /\ activeSession # 0
             /\ sessionTokens[t] = activeSession
             /\ sess[activeSession].sessionToken = t
       /\ ~(sessionTokens[t] # 0 /\ pendingSessionTokens[t] # NoClient)

\* C40: shutdown starts nothing new.  From the moment the SIGTERM handler
\* begins until the process exits, no queued client is promoted and no
\* terminal is spawned: in every step taken once the handler has begun, no
\* session's terminal comes to life and the slot takes no new session
C40_ShutdownStartsNothing ==
    [][broker' # "up" =>
          /\ \A s \in SessionIds :
                sess'[s].ttydProcess = "alive" => sess[s].ttydProcess = "alive"
          /\ activeSession' \in {0, activeSession}]_vars
====
